---- MODULE Spec2Model ----
(***************************************************************************)
(* Model of cat'snesemu0.1.py: the CPU6502 instruction engine, the PPU2C02 *)
(* register file, and the CatsNesEmulator host handlers (Open ROM, Play,   *)
(* Pause, Stop, Reset, Power Cycle) together with the emulation_loop       *)
(* thread(s) they start.                                                   *)
(*                                                                         *)
(* Python lists are modelled sparsely: a list of small integers is a       *)
(* record [len, cells] where cells maps the indices holding a non-zero     *)
(* value to that value; every other index below len holds 0.  An object    *)
(* attribute that __init__ never assigns is a field missing from the       *)
(* object's record.  Handlers run atomically on the Tk main thread; an     *)
(* emulation_loop thread interleaves with them between loop iterations.    *)
(* Threads carry no identity the program reads, so the live threads are a  *)
(* bag; a thread that returned or died of an exception leaves the bag.     *)
(***************************************************************************)
EXTENDS Integers, Sequences, FiniteSets, Bags, TLC

\* ---------------------------------------------------------------- bounds
MaxThreads == 2
MaxExec == 2
MaxFrames == 1
MaxWrites == 3

\* ------------------------------------------------------ program constants
MEM_SIZE == 65536
PRG_BASE == 32768
PRG_MIRROR == 49152
PRG_BANK == 16384
RESET_VECTOR == 65532
RESET_SP == 253
RESET_STATUS == 36
FLAG_KEEP == 125
FLAG_N == 128
OP_LDA_IMM == 169
OP_STA_ZP == 133
OP_NOP == 234
CYCLES_RET == 2
CYCLES_PER_FRAME == 29781
VRAM_SIZE == 16384
PPUCTRL == 8192
PPUMASK == 8193
PPUSCROLL == 8197
PPUADDR == 8198
PPUDATA == 8199

Min(a, b) == IF a < b THEN a ELSE b
Max(a, b) == IF a > b THEN a ELSE b

\* ------------------------------------------------------- integer bit ops
RECURSIVE BitAnd(_, _)
\* Python's & on non-negative integers
BitAnd(a, b) ==
    IF a = 0 \/ b = 0 THEN 0
    ELSE ((a % 2) * (b % 2)) + 2 * BitAnd(a \div 2, b \div 2)

RECURSIVE BitOr(_, _)
\* Python's | on non-negative integers
BitOr(a, b) ==
    IF a = 0 THEN b
    ELSE IF b = 0 THEN a
    ELSE Max(a % 2, b % 2) + 2 * BitOr(a \div 2, b \div 2)

\* ------------------------------------------------------------ Python lists
\* [0] * n
ZeroList(n) == [len |-> n, cells |-> << >>]

\* lst[i] for i >= 0; "IndexError" when i is past the end
InRange(lst, i) == i >= 0 /\ i < lst.len

ListGet(lst, i) == IF i \in DOMAIN lst.cells THEN lst.cells[i] ELSE 0

\* lst[i] = v for an index in range
ListSet(lst, i, v) ==
    LET D == IF v = 0 THEN DOMAIN lst.cells \ {i} ELSE DOMAIN lst.cells \cup {i}
    IN  [lst EXCEPT !.cells = [k \in D |-> IF k = i THEN v ELSE lst.cells[k]]]

\* data[lo:hi] of a read-only byte string, re-based at 0
Slice(data, lo, hi) ==
    LET l == Min(lo, data.len)
        h == Max(l, Min(hi, data.len))
        D == {k - l : k \in {j \in DOMAIN data.cells : j >= l /\ j < h}}
    IN  [len |-> h - l, cells |-> [k \in D |-> data.cells[k + l]]]

\* lst[lo:hi] = list(data): the slice is clamped to the list, the cells it
\* covers are removed, data is spliced in, and the tail moves accordingly
SliceAssign(lst, lo, hi, data) ==
    LET l == Min(lo, lst.len)
        h == Max(l, Min(hi, lst.len))
        shift == data.len - (h - l)
        D1 == {k \in DOMAIN lst.cells : k < l}
        D2 == {k + l : k \in DOMAIN data.cells}
        D3 == {k + shift : k \in {j \in DOMAIN lst.cells : j >= h}}
    IN  [len |-> lst.len + shift,
         cells |-> [k \in D1 \cup D2 \cup D3 |->
                      IF k < l THEN lst.cells[k]
                      ELSE IF k < l + data.len THEN data.cells[k - l]
                      ELSE lst.cells[k - shift]]]

\* struct.unpack("<H", bytes(lst[lo:lo+2]))[0]; needs exactly two bytes
CanUnpackH(lst, lo) == lo + 2 <= lst.len

UnpackH(lst, lo) == ListGet(lst, lo) + 256 * ListGet(lst, lo + 1)

\* ------------------------------------------------------------- ROM files
\* A byte string holding the given bytes from offset `at` on, zero elsewhere
BytesAt(at, seq) ==
    [k \in {at + i - 1 : i \in {j \in 1..Len(seq) : seq[j] # 0}} |-> seq[k - at + 1]]

\* LDA #$05; STA $00; BRK
MinimalProgram == <<169, 5, 133, 0, 0>>

\* The files the Open ROM dialog can return.  magic: the file starts with
\* "NES\x1a"; banks: header byte 4; body: the bytes after the 16-byte header.
RomFiles ==
    [ prog_zero |->
        [magic |-> TRUE, banks |-> 1,
         body |-> [len |-> 16384,
                   cells |-> BytesAt(0, MinimalProgram) @@ BytesAt(16380, <<0, 128>>)]],
      prog_tail |->
        [magic |-> TRUE, banks |-> 1,
         body |-> [len |-> 16384 + 8192,
                   cells |-> BytesAt(0, MinimalProgram \o <<169, 7, 133, 0>>)
                             @@ BytesAt(16380, <<0, 128>>)
                             @@ BytesAt(16384, <<255>>)]],
      top32 |->
        [magic |-> TRUE, banks |-> 2,
         body |-> [len |-> 32768,
                   cells |-> BytesAt(32764, <<254, 255, 169, 128>>)]],
      empty0 |->
        [magic |-> TRUE, banks |-> 0,
         body |-> [len |-> 0, cells |-> << >>]],
      badmagic |->
        [magic |-> FALSE, banks |-> 1,
         body |-> [len |-> 16384, cells |-> BytesAt(0, <<234>>)]] ]

HostFiles == {"prog_tail", "top32", "empty0", "badmagic"}
FrameFiles == {"prog_zero", "prog_tail"}

\* ------------------------------------------------------------------ state
VARIABLES
    cpu,              \* CPU6502 registers: pc, sp, a, x, y, status, cycles
    memory,           \* CPU6502.memory
    ppu,              \* PPU2C02 attributes
    ppu_raised,       \* exception raised by the last PPU2C02.write_register
    running, paused,  \* CatsNesEmulator.running / .paused
    rom_data,         \* CatsNesEmulator.rom_data: "None" or the file read
    cartridge,        \* CatsNesEmulator.cartridge
    status_label,     \* text shown in the status bar
    messagebox,       \* the last dialog shown to the user
    emulation_thread, \* CatsNesEmulator.emulation_thread: "None" or "Thread"
    threads,          \* the bag of live emulation_loop threads, each with its
                      \* position in the loop and its local `cycles`
    ret,              \* outcome of the last execute_instruction call
    after_reset,      \* history: reset_system was the last step taken
    ppu_log,          \* history: the write_register calls made so far
    steps,            \* history: execute_instruction calls so far
    frame_count       \* history: frames rendered so far

vars == <<cpu, memory, ppu, ppu_raised, running, paused, rom_data, cartridge,
          status_label, messagebox, emulation_thread, threads, ret, after_reset,
          ppu_log, steps, frame_count>>

hostVars == <<running, paused, rom_data, cartridge, status_label, messagebox,
              emulation_thread, threads>>

\* ------------------------------------------------------------------ CPU6502
CPUInit ==
    [pc |-> 0, sp |-> RESET_SP, a |-> 0, x |-> 0, y |-> 0,
     status |-> RESET_STATUS, cycles |-> 0]

\* CPU6502.reset; raises struct.error when the vector slice is short
CPUReset(c, mem) ==
    [c EXCEPT !.pc = UnpackH(mem, RESET_VECTOR), !.sp = RESET_SP,
              !.status = RESET_STATUS, !.a = 0, !.x = 0, !.y = 0]

\* set_flags with the mask 0x5D in place of 0x7D
set_flags_mask5D(status, value) ==
    BitOr(BitOr(BitAnd(status, 93), (IF value = 0 THEN 1 ELSE 0) * 2),
          BitAnd(value, FLAG_N))

\* CPU6502.set_flags
set_flags(status, value) ==
    BitOr(BitOr(BitAnd(status, FLAG_KEEP), (IF value = 0 THEN 1 ELSE 0) * 2),
          BitAnd(value, FLAG_N))

Returned(c, mem, opcode) ==
    [cpu |-> c, mem |-> mem,
     ret |-> [opcode |-> opcode, cycles |-> CYCLES_RET, raised |-> "none"]]

Raised(c, mem, opcode) ==
    [cpu |-> c, mem |-> mem,
     ret |-> [opcode |-> opcode, cycles |-> 0, raised |-> "IndexError"]]

\* CPU6502.execute_instruction
execute_instruction(c, mem) ==
    IF ~InRange(mem, c.pc) THEN Raised(c, mem, -1)
    ELSE
      LET opcode == ListGet(mem, c.pc)
          c1 == [c EXCEPT !.pc = c.pc + 1]
      IN  IF opcode = OP_LDA_IMM THEN
              IF ~InRange(mem, c1.pc) THEN Raised(c1, mem, opcode)
              ELSE LET v == ListGet(mem, c1.pc)
                   IN  Returned([c1 EXCEPT !.a = v, !.pc = c1.pc + 1,
                                           !.status = set_flags(c1.status, v)],
                                mem, opcode)
          ELSE IF opcode = OP_STA_ZP THEN
              IF ~InRange(mem, c1.pc) THEN Raised(c1, mem, opcode)
              ELSE LET addr == ListGet(mem, c1.pc)
                   IN  IF ~InRange(mem, addr) THEN Raised(c1, mem, opcode)
                       ELSE Returned([c1 EXCEPT !.pc = c1.pc + 1],
                                     ListSet(mem, addr, c1.a), opcode)
          ELSE Returned(c1, mem, opcode)

\* ------------------------------------------------------------------ PPU2C02
\* PPU2C02.__init__ assigns neither write_toggle nor vram_address
PPUInit ==
    [vram |-> ZeroList(VRAM_SIZE), control |-> 0, mask |-> 0, status |-> 0,
     scroll_x |-> 0, scroll_y |-> 0, scanline |-> 0, cycle |-> 0]

HasAttr(obj, name) == name \in DOMAIN obj

PPUOk(p) == [ppu |-> p, raised |-> "none"]

PPURaise(p, e) == [ppu |-> p, raised |-> e]

\* PPU2C02.write_register
write_register(p, address, value) ==
    IF address = PPUCTRL THEN PPUOk([p EXCEPT !.control = value])
    ELSE IF address = PPUMASK THEN PPUOk([p EXCEPT !.mask = value])
    ELSE IF address = PPUSCROLL THEN
        IF ~HasAttr(p, "write_toggle") THEN PPURaise(p, "AttributeError")
        ELSE LET q == IF p.write_toggle THEN [p EXCEPT !.scroll_x = value]
                      ELSE [p EXCEPT !.scroll_y = value]
             IN  PPUOk([q EXCEPT !.write_toggle = ~p.write_toggle])
    ELSE IF address = PPUADDR THEN
        IF ~HasAttr(p, "write_toggle") THEN PPURaise(p, "AttributeError")
        ELSE IF ~HasAttr(p, "vram_address") THEN PPURaise(p, "AttributeError")
        ELSE LET q == IF p.write_toggle
                      THEN [p EXCEPT !.vram_address =
                                BitOr(BitAnd(p.vram_address, 255), value * 256)]
                      ELSE [p EXCEPT !.vram_address =
                                BitOr(BitAnd(p.vram_address, 65280), value)]
             IN  PPUOk([q EXCEPT !.write_toggle = ~p.write_toggle])
    ELSE IF address = PPUDATA THEN
        IF ~HasAttr(p, "vram_address") THEN PPURaise(p, "AttributeError")
        ELSE IF ~InRange(p.vram, p.vram_address) THEN PPURaise(p, "IndexError")
        ELSE PPUOk([p EXCEPT !.vram = ListSet(p.vram, p.vram_address, value),
                             !.vram_address = p.vram_address +
                                (IF BitAnd(p.control, 4) = 0 THEN 1 ELSE 32)])
    ELSE PPUOk(p)

\* PPU2C02.render_scanline: with both rendering bits of mask clear it draws
\* nothing; the sprite branch calls a method the class does not define
render_scanline(p) ==
    IF p.scanline < 240 /\ p.cycle < 256 /\ BitAnd(p.mask, 16) # 0
    THEN PPURaise(p, "AttributeError")
    ELSE PPUOk(p)

\* ---------------------------------------------------------- CatsNesEmulator
\* CatsNesEmulator.__init__ (with the CPU6502, PPU2C02 objects it creates)
Init ==
    /\ cpu = CPUInit
    /\ memory = ZeroList(MEM_SIZE)
    /\ ppu = PPUInit
    /\ ppu_raised = "none"
    /\ running = FALSE
    /\ paused = FALSE
    /\ rom_data = "None"
    /\ cartridge = "None"
    /\ status_label = "No ROM loaded"
    /\ messagebox = "none"
    /\ emulation_thread = "None"
    /\ threads = EmptyBag
    /\ ret = [opcode |-> -1, cycles |-> 0, raised |-> "none"]
    /\ after_reset = FALSE
    /\ ppu_log = << >>
    /\ steps = 0
    /\ frame_count = 0

\* load_rom without the mirror branch: every image goes through line 291
LoadPrg_NoMirror(mem, file) ==
    SliceAssign(mem, PRG_BASE, MEM_SIZE, Slice(file.body, 0, file.banks * PRG_BANK))

\* load_rom, lines 278-291: the program banks copied into CPU memory
LoadPrg(mem, file) ==
    LET prg_rom_size == file.banks * PRG_BANK
        prg_data == Slice(file.body, 0, prg_rom_size)
    IN  IF prg_data.len = PRG_BANK
        THEN SliceAssign(SliceAssign(mem, PRG_BASE, PRG_MIRROR, prg_data),
                         PRG_MIRROR, MEM_SIZE, prg_data)
        ELSE SliceAssign(mem, PRG_BASE, MEM_SIZE, prg_data)

\* The body of load_rom once the dialog has returned file f
load_rom(f) ==
    LET file == RomFiles[f]
        mem == LoadPrg(memory, file)
    IN  /\ rom_data' = f
        /\ IF ~file.magic THEN
               /\ messagebox' = "Error: Invalid NES ROM file"
               /\ UNCHANGED <<cpu, memory, status_label>>
           ELSE IF ~CanUnpackH(mem, RESET_VECTOR) THEN
               /\ memory' = mem
               /\ messagebox' = "Error: Failed to load ROM"
               /\ UNCHANGED <<cpu, status_label>>
           ELSE
               /\ memory' = mem
               /\ cpu' = CPUReset(cpu, mem)
               /\ status_label' = "Ready"
               /\ messagebox' = "Success: ROM loaded successfully"

\* Open ROM with a file chosen
LoadRom(f) ==
    /\ load_rom(f)
    /\ after_reset' = FALSE
    /\ UNCHANGED <<ppu, ppu_raised, ppu_log, running, paused, cartridge, emulation_thread,
                   threads, ret, steps, frame_count>>

\* Open ROM with the dialog cancelled
LoadRomCancel ==
    /\ after_reset' = FALSE
    /\ UNCHANGED <<cpu, memory, ppu, ppu_raised, ppu_log, hostVars, ret, steps, frame_count>>

\* start_emulation
StartEmulation ==
    /\ after_reset' = FALSE
    /\ IF rom_data = "None" THEN
           /\ messagebox' = "Warning: No ROM loaded"
           /\ UNCHANGED <<running, paused, emulation_thread, threads>>
       ELSE IF ~running THEN
           /\ BagCardinality(threads) < MaxThreads
           /\ threads' = threads (+) SetToBag({[loc |-> "loop", cycles |-> 0]})
           /\ emulation_thread' = "Thread"
           /\ running' = TRUE
           /\ paused' = FALSE
           /\ UNCHANGED messagebox
       ELSE UNCHANGED <<running, paused, emulation_thread, threads, messagebox>>
    /\ UNCHANGED <<cpu, memory, ppu, ppu_raised, ppu_log, rom_data, cartridge, status_label,
                   ret, steps, frame_count>>

\* stop_emulation
StopEmulation ==
    /\ running' = FALSE
    /\ paused' = FALSE
    /\ after_reset' = FALSE
    /\ UNCHANGED <<cpu, memory, ppu, ppu_raised, ppu_log, rom_data, cartridge, status_label,
                   messagebox, emulation_thread, threads, ret, steps, frame_count>>

\* toggle_pause
TogglePause ==
    /\ paused' = ~paused
    /\ after_reset' = FALSE
    /\ UNCHANGED <<cpu, memory, ppu, ppu_raised, ppu_log, running, rom_data, cartridge,
                   status_label, messagebox, emulation_thread, threads, ret, steps,
                   frame_count>>

\* reset_system: resets the CPU only when a cartridge object is set
ResetSystem ==
    /\ IF cartridge # "None" /\ CanUnpackH(memory, RESET_VECTOR)
       THEN cpu' = CPUReset(cpu, memory)
       ELSE UNCHANGED cpu
    /\ after_reset' = TRUE
    /\ UNCHANGED <<memory, ppu, ppu_raised, ppu_log, hostVars, ret, steps, frame_count>>

\* power_cycle: stop_emulation, then load_rom when a file was read before
PowerCycle ==
    /\ running' = FALSE
    /\ paused' = FALSE
    /\ after_reset' = FALSE
    /\ IF rom_data # "None"
       THEN \/ \E f \in HostFiles : load_rom(f)
            \/ UNCHANGED <<rom_data, cpu, memory, status_label, messagebox>>
       ELSE UNCHANGED <<rom_data, cpu, memory, status_label, messagebox>>
    /\ UNCHANGED <<ppu, ppu_raised, ppu_log, cartridge, emulation_thread, threads, ret, steps,
                   frame_count>>

\* ------------------------------------------------------------ emulation_loop
\* The thread th moves on to state th2
Move(th, th2) == threads' = (threads (-) SetToBag({th})) (+) SetToBag({th2})

\* line 333-339: the outer loop test, the pause test (sleep, then test again),
\* cycles = 0.  The thread ends when the loop test fails.
LoopTest(th) ==
    /\ th.loc = "loop"
    /\ IF ~running THEN threads' = threads (-) SetToBag({th})
       ELSE IF paused THEN UNCHANGED threads
       ELSE /\ frame_count < MaxFrames
            /\ Move(th, [loc |-> "frame", cycles |-> 0])
    /\ after_reset' = FALSE
    /\ UNCHANGED <<cpu, memory, ppu, ppu_raised, ppu_log, running, paused, rom_data, cartridge,
                   status_label, messagebox, emulation_thread, ret, steps, frame_count>>

\* line 342-343: one iteration of the inner loop; an exception raised by
\* execute_instruction ends the thread
FrameStep(th) ==
    /\ th.loc = "frame"
    /\ th.cycles < CYCLES_PER_FRAME /\ running
    /\ LET r == execute_instruction(cpu, memory)
       IN  /\ cpu' = r.cpu
           /\ memory' = r.mem
           /\ ret' = r.ret
           /\ IF r.ret.raised = "none"
              THEN Move(th, [th EXCEPT !.cycles = @ + r.ret.cycles])
              ELSE threads' = threads (-) SetToBag({th})
    /\ steps' = steps + 1
    /\ after_reset' = FALSE
    /\ UNCHANGED <<ppu, ppu_raised, ppu_log, running, paused, rom_data, cartridge,
                   status_label, messagebox, emulation_thread, frame_count>>

\* line 342: the inner loop ends
FrameEnd(th) ==
    /\ th.loc = "frame"
    /\ ~(th.cycles < CYCLES_PER_FRAME /\ running)
    /\ Move(th, [th EXCEPT !.loc = "render"])
    /\ after_reset' = FALSE
    /\ UNCHANGED <<cpu, memory, ppu, ppu_raised, ppu_log, running, paused, rom_data, cartridge,
                   status_label, messagebox, emulation_thread, ret, steps, frame_count>>

\* line 346-352: ppu.render_scanline(); update_display(); sleep out the rest
\* of the frame time
Render(th) ==
    /\ th.loc = "render"
    /\ LET r == render_scanline(ppu)
       IN  /\ ppu' = r.ppu
           /\ IF r.raised = "none"
              THEN Move(th, [th EXCEPT !.loc = "loop"])
              ELSE threads' = threads (-) SetToBag({th})
    /\ frame_count' = frame_count + 1
    /\ after_reset' = FALSE
    /\ UNCHANGED <<cpu, memory, ppu_raised, ppu_log, running, paused, rom_data, cartridge,
                   status_label, messagebox, emulation_thread, ret, steps>>

\* --------------------------------------------------------- specifications
\* The host: every menu and toolbar command, interleaved with the threads
HostStep(th) == steps < MaxExec /\ FrameStep(th)

Next ==
    \/ \E f \in HostFiles : LoadRom(f)
    \/ LoadRomCancel
    \/ StartEmulation
    \/ StopEmulation
    \/ TogglePause
    \/ ResetSystem
    \/ PowerCycle
    \/ \E th \in BagToSet(threads) : LoopTest(th)
    \/ \E th \in BagToSet(threads) : HostStep(th)
    \/ \E th \in BagToSet(threads) : FrameEnd(th)
    \/ \E th \in BagToSet(threads) : Render(th)

Spec == Init /\ [][Next]_vars

\* One ROM opened, Play pressed, and the emulation thread left to run
FrameLoad == rom_data = "None" /\ \E f \in FrameFiles : LoadRom(f)

FramePlay == ~running /\ StartEmulation

NextFrame ==
    \/ FrameLoad
    \/ FramePlay
    \/ \E th \in BagToSet(threads) : LoopTest(th)
    \/ \E th \in BagToSet(threads) : FrameStep(th)
    \/ \E th \in BagToSet(threads) : FrameEnd(th)
    \/ \E th \in BagToSet(threads) : Render(th)

SpecFrame == Init /\ [][NextFrame]_vars

\* The picture unit's register interface, driven from a new PPU2C02
PPUAddresses == {PPUCTRL, PPUMASK, PPUSCROLL, PPUADDR, PPUDATA}
PPUValues == {0, 1, 4, 8, 16, 32, 63, 128, 255}

WriteRegister(address, value) ==
    /\ Len(ppu_log) < MaxWrites
    /\ LET r == write_register(ppu, address, value)
       IN  ppu' = r.ppu /\ ppu_raised' = r.raised
    /\ ppu_log' = Append(ppu_log, [address |-> address, value |-> value])
    /\ UNCHANGED <<cpu, memory, hostVars, ret, after_reset, steps, frame_count>>

NextPPU == \E address \in PPUAddresses, value \in PPUValues : WriteRegister(address, value)

SpecPPU == Init /\ [][NextPPU]_vars

\* ------------------------------------------------------------ properties
Implemented == {OP_LDA_IMM, OP_STA_ZP, OP_NOP}

\* A step of some thread's inner loop: a call of execute_instruction
ExecStep == steps' # steps

\* C1: an execute_instruction call that fetched an opcode other than 0xA9,
\* 0x85, 0xEA ends with an UnimplementedOpcode condition, never with a normal
\* return.
C1_UnimplementedReported ==
    (ret.opcode # -1 /\ ret.opcode \notin Implemented)
        => ret.raised = "UnimplementedOpcode"

\* C2: once a thread has run a whole frame (its cycle budget is used up and
\* the frame is rendered) on an image whose program is LDA #$05; STA $00; BRK,
\* memory[0] = 5 and A = 5.
C2_FrameResult ==
    (/\ rom_data \in FrameFiles
     /\ frame_count = 1
     /\ \E th \in BagToSet(threads) : th.loc = "loop" /\ th.cycles >= CYCLES_PER_FRAME)
        => (ListGet(memory, 0) = 5 /\ cpu.a = 5)

\* The 6502 reference: Z (bit 1) set iff the value is 0, N (bit 7) is the
\* value's bit 7, every other flag kept
RefFlags(status, value) ==
    LET z == (status \div 2) % 2
        n == (status \div 128) % 2
    IN  status - 2 * z - 128 * n
          + (IF value = 0 THEN 2 ELSE 0) + (IF value >= 128 THEN 128 ELSE 0)

\* C3: every execute_instruction call on an implemented opcode whose bytes are
\* in memory produces the registers, flags and cycle count of the 6502
\* reference table: LDA # 2 cycles, STA zp 3 cycles, NOP 2 cycles.
C3_ReferenceTable ==
    [][(ExecStep /\ InRange(memory, cpu.pc + 1)) =>
          LET opcode == ListGet(memory, cpu.pc)
              operand == ListGet(memory, cpu.pc + 1)
          IN  /\ opcode = OP_LDA_IMM =>
                    /\ cpu' = [cpu EXCEPT !.a = operand, !.pc = cpu.pc + 2,
                                          !.status = RefFlags(cpu.status, operand)]
                    /\ memory' = memory
                    /\ ret'.cycles = 2
              /\ opcode = OP_STA_ZP =>
                    /\ cpu' = [cpu EXCEPT !.pc = cpu.pc + 2]
                    /\ ListGet(memory', operand) = cpu.a
                    /\ ret'.cycles = 3
              /\ opcode = OP_NOP =>
                    /\ cpu' = [cpu EXCEPT !.pc = cpu.pc + 1]
                    /\ memory' = memory
                    /\ ret'.cycles = 2]_vars

\* The picture unit's position in the frame, in PPU cycles (341 per scanline)
PPUPosition(p) == p.scanline * 341 + p.cycle

\* C4: every CPU instruction step leaves the picture unit advanced by three
\* PPU cycles for each CPU cycle the step consumed (262 scanlines per frame).
C4_LockStep ==
    [][(ExecStep /\ ret'.raised = "none") =>
          PPUPosition(ppu') = (PPUPosition(ppu) + 3 * ret'.cycles) % (341 * 262)]_vars

\* C5: at most one emulation_loop thread is live, and a host command changes
\* CPU memory or registers only while no thread is inside the instruction loop.
C5_SingleWriter ==
    [][/\ BagCardinality(threads') <= 1
       /\ (~ExecStep /\ (memory' # memory \/ cpu' # cpu))
             => \A th \in BagToSet(threads) : th.loc # "frame"]_vars

\* C6: right after reset_system, with a ROM loaded successfully and the reset
\* vector in memory, the registers hold their reset values and pc holds the
\* word at 0xFFFC-0xFFFD.
C6_ResetReinitializes ==
    (after_reset /\ status_label = "Ready" /\ CanUnpackH(memory, RESET_VECTOR))
        => /\ cpu.sp = 253 /\ cpu.status = 36
           /\ cpu.a = 0 /\ cpu.x = 0 /\ cpu.y = 0
           /\ cpu.pc = ListGet(memory, 65532) + 256 * ListGet(memory, 65533)

\* C7: pc is a 16-bit value and CPU memory has exactly 0x10000 cells.
C7_AddressSpace ==
    /\ cpu.pc \in 0..65535
    /\ memory.len = 65536

\* Offsets i below n at which lst[base + i] is non-zero
NonZeroOffsets(lst, base, n) ==
    {k - base : k \in {j \in DOMAIN lst.cells : j >= base /\ j < base + n}}

\* C8: a load_rom of a well-formed file with header byte 4 = 1 and a whole
\* 16KB bank leaves byte i of the bank at 0x8000+i and at 0xC000+i for every
\* i in 0..0x3FFF and changes no address below 0x8000.  (Cells zero on all
\* sides need no comparison.)
C8_Mirrored ==
    [][\A f \in HostFiles :
         LET file == RomFiles[f]
             offsets == NonZeroOffsets(file.body, 0, 16384)
                        \cup NonZeroOffsets(memory', 32768, 16384)
                        \cup NonZeroOffsets(memory', 49152, 16384)
         IN  (file.magic /\ file.banks = 1 /\ file.body.len >= 16384 /\ load_rom(f))
               => /\ memory'.len >= 65536
                  /\ \A i \in offsets :
                        /\ ListGet(memory', 32768 + i) = ListGet(file.body, i)
                        /\ ListGet(memory', 49152 + i) = ListGet(file.body, i)
                  /\ \A a \in DOMAIN memory.cells \cup DOMAIN memory'.cells :
                        a < 32768 => ListGet(memory', a) = ListGet(memory, a)]_vars

\* A one-bank file was loaded over a zero page the program had written: the
\* reset that cleared A came after the STA that stored 5.
C8_Witness ==
    /\ rom_data = "prog_tail"
    /\ messagebox = "Success: ROM loaded successfully"
    /\ ListGet(memory, 0) = 5
    /\ cpu.a = 0 /\ cpu.pc = 32768
    /\ ListGet(memory, 32768) = 169 /\ ListGet(memory, 49152) = 169
    /\ ListGet(memory, 65533) = 128

\* C9: bit 5 of the CPU status register is 1.
C9_UnusedBitSet == (cpu.status \div 32) % 2 = 1

\* set_flags has run on a negative value: N is set, bit 5 still is
C9_Witness == cpu.a = 128 /\ cpu.status = 164

\* C10: from a new picture unit, the first write to 0x2006 succeeds, sets the
\* high byte of the VRAM address and flips the write toggle; a second sets the
\* low byte; a write to 0x2007 then stores its value at that address and
\* advances the address by 1 (control bit 2 clear) or 32 (set).
C10_WriteToggle ==
    /\ (Len(ppu_log) >= 1 /\ ppu_log[1].address \in {PPUSCROLL, PPUADDR})
          => HasAttr(ppu, "write_toggle")
    /\ (Len(ppu_log) = 1 /\ ppu_log[1].address = PPUADDR)
          => /\ ppu_raised = "none"
             /\ HasAttr(ppu, "vram_address")
             /\ ppu.vram_address \div 256 = ppu_log[1].value
    /\ (/\ Len(ppu_log) = 3
        /\ ppu_log[1].address = PPUADDR /\ ppu_log[1].value < 64
        /\ ppu_log[2].address = PPUADDR
        /\ ppu_log[3].address = PPUDATA)
          => LET addr == ppu_log[1].value * 256 + ppu_log[2].value
             IN  /\ ppu_raised = "none"
                 /\ HasAttr(ppu, "vram_address")
                 /\ ListGet(ppu.vram, addr) = ppu_log[3].value
                 /\ ppu.vram_address =
                       addr + (IF (ppu.control \div 4) % 2 = 0 THEN 1 ELSE 32)

====
